---- MODULE Spec2Model ----
(***************************************************************************)
(* A model of hangman.py: the WordNet dictionary loader, the game state of *)
(* one round (play_game) and the session loop (main).                      *)
(*                                                                         *)
(* Characters are their code points, as the program sees them: a key is    *)
(* the integer returned by stdscr.getch(), a word is a sequence of code    *)
(* points, str.lower()/str.isalpha() are computed on the codes.            *)
(***************************************************************************)
EXTENDS Integers, Sequences, FiniteSets, TLC

VARIABLES
    dictionary_path,    \* self.dictionary_path: the directory given with -d
    pc,                 \* where the process is: the getch() or napms() it is blocked
                        \* in, "continue" at the end of a loop iteration, "exited"
    current_option,     \* select_word_type: highlighted menu row (0-based)
    dictionaries,       \* self.dictionaries: tag -> (word -> definition)
    current_word,       \* self.current_word (<<>> models None)
    current_progress,   \* self.current_progress
    current_definition, \* self.current_definition (<<>> models None)
    incorrect_guesses,  \* play_game local
    guessed_letters,    \* play_game local
    message,            \* text on row 23 while play_game sleeps in napms(), else ""
    nonletter,          \* the key of this iteration of play_game's loop was no letter
    won,                \* main local: "True"/"False" as play_game returned, else "unset"
    outcome,            \* how the current/last round stands
    opened,             \* tag -> number of times open() ran on data.<tag>
    error,              \* the exception on screen at an error prompt, else "none"
    confirm,            \* play_game local: the key read at the quit question in
                        \* this iteration of the loop (0: none)
    status,             \* the exit status of the process, "running" before it ends
    log,                \* the entry written last to the log file ("" if none)
    file_lines,         \* read_dictionary: the lines its for loop has still to read
                        \* from the open data file (<<>> when none is open)
    figure              \* the drawing functions play_game has called since the
                        \* screen was last cleared, in order

vars == << dictionary_path, pc, current_option, dictionaries, current_word, current_progress,
           current_definition, incorrect_guesses, guessed_letters, message,
           nonletter, won, outcome, opened, error, confirm, status, log,
           file_lines, figure >>

----------------------------------------------------------------------------
(* Bounds of the model *)

\* how many letters of Keyboard the player may press
NumLetterKeys == 13

\* the counter `opened` saturates here
MaxOpens == 3

----------------------------------------------------------------------------
(* Characters *)

Ascii ==
  << " ", "!", "dquote", "#", "$", "%", "&", "'", "(", ")", "*", "+", ",", "-", ".", "/",
     "0", "1", "2", "3", "4", "5", "6", "7", "8", "9", ":", ";", "<", "=", ">", "?",
     "@", "A", "B", "C", "D", "E", "F", "G", "H", "I", "J", "K", "L", "M", "N", "O",
     "P", "Q", "R", "S", "T", "U", "V", "W", "X", "Y", "Z", "[", "backslash", "]", "^", "_",
     "backtick", "a", "b", "c", "d", "e", "f", "g", "h", "i", "j", "k", "l", "m", "n", "o",
     "p", "q", "r", "s", "t", "u", "v", "w", "x", "y", "z", "{", "|", "}", "~" >>

\* Python ord() on a one-character string of printable ASCII (the double
\* quote, the backslash and the backtick are spelled out: no line uses them)
Codes == [c \in {Ascii[i] : i \in 1..Len(Ascii)} |->
             CHOOSE n \in 32..126 : Ascii[n - 31] = c]

ord(c) == Codes[c]

\* a Python string literal, written as a tuple of one-character strings
Str(t) == [i \in 1..Len(t) |-> ord(t[i])]

\* isalpha with the lower ends of both ranges one code too low ('@', backtick)
isalpha_wide(c) == (c >= 64 /\ c <= 90) \/ (c >= 96 /\ c <= 122)

\* str.isalpha() on one ASCII character
isalpha(c) == (c >= 65 /\ c <= 90) \/ (c >= 97 /\ c <= 122)

\* str.isdigit() on one ASCII character
isdigit(c) == c >= 48 /\ c <= 57

\* str.isspace() on one ASCII character
isspace(c) == c \in {9, 10, 11, 12, 13, 28, 29, 30, 31, 32}

\* str.lower() on one ASCII character
lower(c) == IF c >= 65 /\ c <= 90 THEN c + 32 ELSE c

\* str.upper() on one ASCII character (used to build the key set only)
upper(c) == IF c >= 97 /\ c <= 122 THEN c - 32 ELSE c

----------------------------------------------------------------------------
(* String functions used by read_dictionary *)

\* 1-based index of the first occurrence of c in s, 0 if none
find(s, c) ==
    IF \E i \in 1..Len(s) : s[i] = c
    THEN CHOOSE i \in 1..Len(s) : s[i] = c /\ \A j \in 1..(i - 1) : s[j] # c
    ELSE 0

RECURSIVE lstrip(_)
lstrip(s) == IF s # <<>> /\ isspace(Head(s)) THEN lstrip(Tail(s)) ELSE s

RECURSIVE rstrip(_)
rstrip(s) ==
    IF s # <<>> /\ isspace(s[Len(s)]) THEN rstrip(SubSeq(s, 1, Len(s) - 1)) ELSE s

\* str.strip()
strip(s) == rstrip(lstrip(s))

\* length of the longest prefix of s without whitespace
RECURSIVE wordlen(_)
wordlen(s) == IF s = <<>> \/ isspace(Head(s)) THEN 0 ELSE 1 + wordlen(Tail(s))

\* str.split(): the whitespace-separated tokens of s
RECURSIVE split(_)
split(s) ==
    LET t == lstrip(s)
        n == wordlen(t)
    IN  IF t = <<>> THEN <<>>
        ELSE <<SubSeq(t, 1, n)>> \o split(SubSeq(t, n + 1, Len(t)))

\* str.split(sep, 1): at most two parts, cut at the first sep
split1(s, sep) ==
    LET i == find(s, sep)
    IN  IF i = 0 THEN <<s>>
        ELSE <<SubSeq(s, 1, i - 1), SubSeq(s, i + 1, Len(s))>>

\* str.split(sep)[0]
firstpart(s, sep) == split1(s, sep)[1]

----------------------------------------------------------------------------
(* The dictionary directory *)

\* HangmanGame.WORD_TYPES, in menu order: the values of the dict
WORD_TYPES == << "noun", "verb", "adj", "adv" >>

Tags == {WORD_TYPES[i] : i \in 1..Len(WORD_TYPES)}

\* data.noun: a licence line, entries, a duplicate headword and malformed lines
NounLines ==
  << Str(<< " ", " ", "1", " ", "l", "i", "c", "e", "n", "c", "e" >>),
     Str(<< "1", " ", "5", " ", "n", " ", "1", " ", "d", "o", "g", " ", "0",
            " ", "|", " ", "p", "e", "t", ";", " ", "x" >>) \o <<10>>,
     Str(<< "2", " ", "5", " ", "n", " ", "1", " ", "A", "_", "b", " ", "0",
            "|", "u", " ", "v", " " >>),
     Str(<< "3", " ", "5", " ", "n", " ", "1", " ", "|", " ", "s", "h", "o", "r", "t" >>),
     Str(<< ";", " ", "5", " ", "n", " ", "1", " ", "c", "a", "t", " ", "|", "n", "o" >>),
     <<9>> \o Str(<< "4", " ", "5", " ", "n", " ", "1", " ", "q", "-", "2", " ",
            "|", "w", "|", "z" >>),
     Str(<< "5", " ", "5", " ", "n", " ", "1", " ", "e", "e", "l", " ", "|", " ", ";", "f" >>),
     <<>>,
     Str(<< "6", " ", "5", " ", "n", " ", "1", " ", "d", "o", "g", "|", "c", "u", "r" >>) >>

\* data.verb: nothing that read_dictionary stores
VerbLines ==
  << Str(<< " ", " ", "1", " ", "l", "i", "c", "e", "n", "c", "e" >>),
     Str(<< "7", " ", "9", " ", "v", " ", "|", "r", "u", "n" >>) >>

\* data.adj: two headwords without a letter
AdjLines ==
  << Str(<< "8", " ", "0", " ", "a", " ", "1", " ", "1", "5", " ", "0", " ",
            "|", " ", "f", "i", "f", "t", "e", "e", "n", ";" >>),
     Str(<< "9", " ", "0", " ", "a", " ", "1", " ", "2", "-", "3", " ",
            "|", "f", "e", "w" >>) >>

\* the directories the game is started on
Directories == {"wordnet", "sparse"}

\* the files of each directory: "wordnet" holds data.noun only, "sparse"
\* holds data.verb and data.adj only; reads of its data.adj may fail
DataFiles ==
    [d \in Directories |-> [t \in Tags |->
        CASE d = "wordnet" /\ t = "noun" ->
                [exists |-> TRUE, lines |-> NounLines, failing |-> FALSE]
          [] d = "sparse" /\ t = "verb"  ->
                [exists |-> TRUE, lines |-> VerbLines, failing |-> FALSE]
          [] d = "sparse" /\ t = "adj"   ->
                [exists |-> TRUE, lines |-> AdjLines, failing |-> TRUE]
          [] OTHER -> [exists |-> FALSE, lines |-> <<>>, failing |-> FALSE]]]

\* the paths given with -d: the two directories, a path that does not exist
\* and the path of a regular file
StartPaths == Directories \cup {"nowhere", "notes.txt"}

\* Path.exists() and Path.is_dir() of each
PathKinds ==
    [p \in StartPaths |->
        [exists |-> p # "nowhere", is_dir |-> p \in Directories]]

----------------------------------------------------------------------------
(* read_dictionary *)

\* parse_line taking the headword one token early
parse_line_fourth(raw) ==
    LET line == strip(raw)
        parts == split1(line, ord("|"))
        word_data == split(parts[1])
        word == word_data[4]
        definition == strip(firstpart(parts[2], ord(";")))
    IN  IF line = <<>> \/ ~isdigit(line[1]) \/ find(line, ord("|")) = 0
        THEN [stored |-> FALSE]
        ELSE IF Len(parts) < 2 THEN [stored |-> FALSE]
        ELSE IF Len(word_data) < 5 THEN [stored |-> FALSE]
        ELSE IF word # <<>> /\ definition # <<>>
             THEN [stored |-> TRUE, word |-> word, definition |-> definition]
             ELSE [stored |-> FALSE]

\* the body of the per-line loop: the entry a line yields, if any
parse_line(raw) ==
    LET line == strip(raw)
        parts == split1(line, ord("|"))
        word_data == split(parts[1])
        word == word_data[5]
        definition == strip(firstpart(parts[2], ord(";")))
    IN  IF line = <<>> \/ ~isdigit(line[1]) \/ find(line, ord("|")) = 0
        THEN [stored |-> FALSE]
        ELSE IF Len(parts) < 2 THEN [stored |-> FALSE]
        ELSE IF Len(word_data) < 5 THEN [stored |-> FALSE]
        ELSE IF word # <<>> /\ definition # <<>>
             THEN [stored |-> TRUE, word |-> word, definition |-> definition]
             ELSE [stored |-> FALSE]

\* self.dictionaries[word_type][word] = definition
store(mapping, word, definition) ==
    [w \in (DOMAIN mapping) \cup {word} |->
        IF w = word THEN definition ELSE mapping[w]]

\* the for loop over the first n lines of the file
RECURSIVE read_lines(_, _, _)
read_lines(mapping, lines, n) ==
    IF n = 0 THEN mapping
    ELSE LET sofar == read_lines(mapping, lines, n - 1)
             e == parse_line(lines[n])
         IN  IF e.stored THEN store(sofar, e.word, e.definition) ELSE sofar

\* the empty dict {}
EmptyDict == [w \in {} |-> <<>>]

\* the ways reading a file can go: to the end, or, part-way through a file
\* whose reads may fail, an IOError raised after `after` lines were delivered
ReadOutcomes(file) ==
    {[fails |-> FALSE, after |-> Len(file.lines)]}
      \cup (IF file.failing
            THEN {[fails |-> TRUE, after |-> k] : k \in 1..(Len(file.lines) - 1)}
            ELSE {})

\* read_dictionary rebinding self.dictionaries to a dict of the one new tag
\* where the code adds a key to it
read_dictionary_rebinds(path, dicts, word_type, io) ==
    IF word_type \in DOMAIN dicts
    THEN [dicts |-> dicts, raised |-> "none", opens |-> 0]
    ELSE IF ~DataFiles[path][word_type].exists
    THEN [dicts |-> dicts, raised |-> "FileNotFoundError", opens |-> 0]
    ELSE LET m == read_lines(EmptyDict, DataFiles[path][word_type].lines, io.after)
         IN  [dicts  |-> [t \in {word_type} |-> m],
              raised |-> IF io.fails THEN "IOError" ELSE "none",
              opens  |-> 1]

\* read_dictionary(word_type) on the cache dicts: the new cache, the
\* exception raised ("none" if it returns) and whether open() ran
read_dictionary(path, dicts, word_type, io) ==
    IF word_type \in DOMAIN dicts
    THEN [dicts |-> dicts, raised |-> "none", opens |-> 0]
    ELSE IF ~DataFiles[path][word_type].exists
    THEN [dicts |-> dicts, raised |-> "FileNotFoundError", opens |-> 0]
    ELSE LET m == read_lines(EmptyDict, DataFiles[path][word_type].lines, io.after)
         IN  [dicts  |-> [t \in (DOMAIN dicts) \cup {word_type} |->
                            IF t = word_type THEN m ELSE dicts[t]],
              raised |-> IF io.fails THEN "IOError" ELSE "none",
              opens  |-> 1]

----------------------------------------------------------------------------
(* Game state of a round *)

\* the placeholder '_' of current_progress
Placeholder == 95

\* HangmanGame.GAME_PROGRESSION: incorrect guesses -> drawing function
GAME_PROGRESSION ==
    [n \in 0..9 |->
        << "nothing", "head", "neck", "torso", "right_arm", "left_arm",
           "right_leg", "left_leg", "right_shoe", "left_shoe" >>[n + 1]]

\* max_incorrect without the "- 1"
max_incorrect_len == Cardinality(DOMAIN GAME_PROGRESSION)

\* max_incorrect = len(self.GAME_PROGRESSION) - 1
max_incorrect == Cardinality(DOMAIN GAME_PROGRESSION) - 1

\* update_word_progress building the progress anew from the one letter
update_word_progress_anew(word, progress, letter) ==
    IF word = <<>>
    THEN [progress |-> progress, found |-> FALSE]
    ELSE LET indices == {i \in 1..Len(word) : lower(letter) = lower(word[i])}
         IN  [progress |-> [i \in 1..Len(progress) |->
                              IF i \in indices THEN lower(letter) ELSE Placeholder],
              found    |-> indices # {}]

\* update_word_progress(letter): the new progress and the returned flag
update_word_progress(word, progress, letter) ==
    IF word = <<>>
    THEN [progress |-> progress, found |-> FALSE]
    ELSE LET indices == {i \in 1..Len(word) : lower(letter) = lower(word[i])}
         IN  [progress |-> [i \in 1..Len(progress) |->
                              IF i \in indices THEN lower(letter) ELSE progress[i]],
              found    |-> indices # {}]

\* new_progress blanking every character but the space
new_progress_all_but_space(word) ==
    [i \in 1..Len(word) |-> IF word[i] # ord(" ") THEN Placeholder ELSE word[i]]

\* get_random_word: the progress a freshly selected word starts with
new_progress(word) ==
    LET blank == [i \in 1..Len(word) |->
                    IF isalpha(word[i]) THEN Placeholder ELSE word[i]]
        hyphens == update_word_progress(word, blank, ord("-")).progress
    IN  update_word_progress(word, hyphens, ord(" ")).progress

\* is_word_complete(): '_' not in self.current_progress
is_word_complete(progress) ==
    \A i \in 1..Len(progress) : progress[i] # Placeholder

\* the test `letter in guessed_letters` left out
already_guessed_never(letter, guessed) == FALSE

\* the test `letter in guessed_letters`
already_guessed(letter, guessed) == letter \in guessed

\* handle_key counting a repeated letter as one more incorrect guess
handle_key_repeat_counts(key, word, progress, guessed, incorrect) ==
    LET same == [progress |-> progress, guessed |-> guessed,
                 incorrect |-> incorrect, message |-> ""]
        letter == lower(key)
        upd == update_word_progress(word, progress, letter)
    IN  IF key = ord("q") \/ key = ord("Q") THEN same
        ELSE IF ~(32 <= key /\ key <= 126) THEN same
        ELSE IF ~isalpha(letter) THEN same
        ELSE IF already_guessed(letter, guessed)
             THEN [same EXCEPT !.message = "already",
                               !.incorrect = incorrect + 1]
        ELSE IF upd.found
             THEN [progress |-> upd.progress, guessed |-> guessed \cup {letter},
                   incorrect |-> incorrect, message |-> "good"]
             ELSE [progress |-> upd.progress, guessed |-> guessed \cup {letter},
                   incorrect |-> incorrect + 1, message |-> "sorry"]

\* play_game, from a key that is not ESC to the end of the loop body:
\* the new progress, guessed_letters, incorrect_guesses and the text put on
\* row 23 ("" when the iteration ends without one)
handle_key(key, word, progress, guessed, incorrect) ==
    LET same == [progress |-> progress, guessed |-> guessed,
                 incorrect |-> incorrect, message |-> ""]
        letter == lower(key)
        upd == update_word_progress(word, progress, letter)
    IN  IF key = ord("q") \/ key = ord("Q") THEN same
        ELSE IF ~(32 <= key /\ key <= 126) THEN same
        ELSE IF ~isalpha(letter) THEN same
        ELSE IF already_guessed(letter, guessed)
             THEN [same EXCEPT !.message = "already"]
        ELSE IF upd.found
             THEN [progress |-> upd.progress, guessed |-> guessed \cup {letter},
                   incorrect |-> incorrect, message |-> "good"]
             ELSE [progress |-> upd.progress, guessed |-> guessed \cup {letter},
                   incorrect |-> incorrect + 1, message |-> "sorry"]

\* play_game, from the while test to the next getch(): where the loop blocks
loop_top(incorrect, progress) ==
    IF incorrect < max_incorrect
    THEN IF is_word_complete(progress) THEN "won_ack" ELSE "play"
    ELSE "lost_ack"

\* redraw with the loop `for i in range(0, incorrect_guesses)`
redraw_from_zero(where, incorrect) ==
    << "gallows" >> \o
       [i \in 1..(IF where = "lost_ack"
                  THEN Cardinality(DOMAIN GAME_PROGRESSION) - 1
                  ELSE incorrect) |-> GAME_PROGRESSION[i - 1]]

\* play_game: what is drawn after stdscr.clear() on the way to the getch()
\* at `where`: the gallows, then GAME_PROGRESSION[i] for i in
\* range(1, incorrect_guesses + 1) in the loop, for i in
\* range(1, len(GAME_PROGRESSION)) on the loss screen
redraw(where, incorrect) ==
    << "gallows" >> \o
       [i \in 1..(IF where = "lost_ack"
                  THEN Cardinality(DOMAIN GAME_PROGRESSION) - 1
                  ELSE incorrect) |-> GAME_PROGRESSION[i]]

\* the standing of the round at that getch()
standing(where) ==
    CASE where = "won_ack"  -> "Won"
      [] where = "lost_ack" -> "Lost"
      [] OTHER              -> "InProgress"

----------------------------------------------------------------------------
(* Keys *)

ESC == 27
KEY_DOWN == 258
KEY_UP == 259

\* the letters of the keyboard, in the order NumLetterKeys admits them
Keyboard ==
    Str(<< "d", "o", "g", "q", "a", "b", "c", "e", "f", "h", "i", "j", "k",
           "l", "m", "n", "p", "r", "s", "t", "u", "v", "w", "x", "y", "z" >>)

Min(a, b) == IF a < b THEN a ELSE b

GuessKeys ==
    LET low == {Keyboard[i] : i \in 1..Min(NumLetterKeys, Len(Keyboard))}
    IN  low \cup {upper(c) : c \in low}

\* the letters that answer the yes/no prompts
AnswerKeys == {ord("y"), ord("Y"), ord("n"), ord("N"), ord("q"), ord("Q")}

\* Enter, space, a digit, punctuation (the codes next to the letter ranges
\* among it), a code above 126 and the arrow keys
OtherKeys ==
    {10, 13, 32, ord("-"), ord("2"), ord("@"), ord("["), ord("_"), 96,
     ord("{"), 200, KEY_DOWN, KEY_UP}

----------------------------------------------------------------------------
(* The process: an action runs from one getch() to the next; an iteration  *)
(* of play_game's loop is cut where its body ends (napms or continue).     *)

\* the process as it is started, args parsed
Init ==
    /\ dictionary_path \in StartPaths
    /\ pc = "start"
    /\ current_option = 0
    /\ dictionaries = [t \in {} |-> EmptyDict]
    /\ current_word = <<>>
    /\ current_progress = <<>>
    /\ current_definition = <<>>
    /\ incorrect_guesses = 0
    /\ guessed_letters = {}
    /\ message = ""
    /\ nonletter = FALSE
    /\ won = "unset"
    /\ outcome = "None"
    /\ opened = [t \in Tags |-> 0]
    /\ error = "none"
    /\ confirm = 0
    /\ status = "running"
    /\ log = ""
    /\ file_lines = <<>>
    /\ figure = <<>>

\* __main__: the directory test, then logging is set up, curses.wrapper calls
\* main, HangmanGame.__init__ runs and the menu waits for its first key
Start ==
    /\ pc = "start"
    /\ IF ~PathKinds[dictionary_path].exists \/ ~PathKinds[dictionary_path].is_dir
       THEN \* print(...), exit(1)
            /\ pc' = "exited"
            /\ status' = "1"
            /\ UNCHANGED log
       ELSE /\ pc' = "menu"
            /\ log' = "Starting Hangman game"
            /\ UNCHANGED status
    /\ UNCHANGED << dictionary_path, current_option, dictionaries, current_word,
                    current_progress, current_definition, incorrect_guesses,
                    guessed_letters, message, nonletter, won, outcome, opened,
                    error, confirm, file_lines, figure >>

\* main is left without an exception or on a KeyboardInterrupt:
\* curses.wrapper restores the terminal, __main__ ends with status 0 after
\* its finally clause has logged
ProcessEnds ==
    /\ pc' = "exited"
    /\ status' = "0"
    /\ log' = "Hangman game ended"
    /\ figure' = <<>>

\* the entry play_game logs on the way to the getch() it blocks in
logged(where, last) ==
    CASE where = "won_ack"  -> "Player won"
      [] where = "lost_ack" -> "Player lost"
      [] OTHER              -> last

\* play_game has returned: its locals are gone, main clears the screen
RoundLocalsGone ==
    /\ incorrect_guesses' = 0
    /\ guessed_letters' = {}
    /\ message' = ""
    /\ nonletter' = FALSE
    /\ confirm' = 0
    /\ figure' = <<>>

\* select_word_type: an arrow key moves the highlight
MenuMove(key) ==
    /\ pc = "menu"
    /\ key \in {KEY_UP, KEY_DOWN}
    /\ current_option' =
          IF key = KEY_UP THEN (current_option - 1) % Len(WORD_TYPES)
                          ELSE (current_option + 1) % Len(WORD_TYPES)
    /\ UNCHANGED << dictionary_path, pc, dictionaries, current_word, current_progress,
                    current_definition, incorrect_guesses, guessed_letters,
                    message, nonletter, won, outcome, opened, error >>
    /\ UNCHANGED << confirm, status, log, file_lines, figure >>

\* select_word_type: any other key but Enter and ESC redraws the menu
MenuOther(key) ==
    /\ pc = "menu"
    /\ key \notin {KEY_UP, KEY_DOWN, 10, 13, ESC}
    /\ UNCHANGED vars

\* select_word_type: ESC raises KeyboardInterrupt, which get_random_word does
\* not catch and main leaves its loop on
MenuEscape(key) ==
    /\ pc = "menu"
    /\ key = ESC
    /\ UNCHANGED << dictionary_path, current_option, dictionaries, current_word, current_progress,
                    current_definition, incorrect_guesses, guessed_letters,
                    message, nonletter, won, outcome, opened, error >>
    /\ ProcessEnds
    /\ UNCHANGED << confirm, file_lines >>

\* MenuSelect with line 323 guarded by `if not self.current_progress`: the
\* progress of an earlier round is kept
MenuSelectKeepsProgress(key, pick) ==
    /\ pc = "menu"
    /\ key \in {10, 13}
    /\ \E io \in ReadOutcomes(DataFiles[dictionary_path]
                                         [WORD_TYPES[current_option + 1]]) :
       LET selected_type == WORD_TYPES[current_option + 1]
           r == IF selected_type \notin DOMAIN dictionaries
                THEN read_dictionary(dictionary_path, dictionaries, selected_type, io)
                ELSE [dicts |-> dictionaries, raised |-> "none", opens |-> 0]
           raised == IF r.raised # "none" THEN r.raised
                     ELSE IF r.dicts[selected_type] = EmptyDict THEN "ValueError"
                     ELSE "none"
       IN  /\ dictionaries' = r.dicts
           /\ opened' = [opened EXCEPT ![selected_type] = Min(@ + r.opens, MaxOpens)]
           /\ IF raised # "none"
              THEN \* except Exception: log, message, getch(), raise
                   /\ pc' = "select_error"
                   /\ error' = raised
                   /\ log' = "Error selecting word"
                   /\ UNCHANGED figure
                   /\ UNCHANGED << current_word, current_progress,
                                   current_definition, incorrect_guesses,
                                   guessed_letters, message, nonletter,
                                   outcome >>
              ELSE \* random.choice, the new progress, then play_game
                   /\ pick \in DOMAIN r.dicts[selected_type]
                   /\ current_word' = pick
                   /\ current_progress' = IF current_progress = <<>>
                                          THEN new_progress(pick)
                                          ELSE current_progress
                   /\ current_definition' = r.dicts[selected_type][pick]
                   /\ incorrect_guesses' = 0
                   /\ guessed_letters' = {}
                   /\ message' = ""
                   /\ nonletter' = FALSE
                   /\ IF pick = <<>>
                      THEN \* play_game: ValueError("No word selected for gameplay")
                           /\ pc' = "game_error"
                           /\ error' = "ValueError"
                           /\ log' = "Game error"
                           /\ UNCHANGED << outcome, figure >>
                      ELSE /\ pc' = loop_top(0, current_progress')
                           /\ outcome' = standing(pc')
                           /\ log' = logged(pc', "Selected word")
                           /\ figure' = redraw(pc', 0)
                           /\ UNCHANGED error
    /\ UNCHANGED << dictionary_path, current_option, won >>
    /\ UNCHANGED << confirm, status, file_lines >>

\* Enter in the menu: the rest of get_random_word and, if it returns,
\* play_game up to its first getch()
MenuSelect(key, pick) ==
    /\ pc = "menu"
    /\ key \in {10, 13}
    /\ \E io \in ReadOutcomes(DataFiles[dictionary_path]
                                         [WORD_TYPES[current_option + 1]]) :
       LET selected_type == WORD_TYPES[current_option + 1]
           r == IF selected_type \notin DOMAIN dictionaries
                THEN read_dictionary(dictionary_path, dictionaries, selected_type, io)
                ELSE [dicts |-> dictionaries, raised |-> "none", opens |-> 0]
           raised == IF r.raised # "none" THEN r.raised
                     ELSE IF r.dicts[selected_type] = EmptyDict THEN "ValueError"
                     ELSE "none"
       IN  /\ dictionaries' = r.dicts
           /\ opened' = [opened EXCEPT ![selected_type] = Min(@ + r.opens, MaxOpens)]
           /\ IF raised # "none"
              THEN \* except Exception: log, message, getch(), raise
                   /\ pc' = "select_error"
                   /\ error' = raised
                   /\ log' = "Error selecting word"
                   /\ UNCHANGED figure
                   /\ UNCHANGED << current_word, current_progress,
                                   current_definition, incorrect_guesses,
                                   guessed_letters, message, nonletter,
                                   outcome >>
              ELSE \* random.choice, the new progress, then play_game
                   /\ pick \in DOMAIN r.dicts[selected_type]
                   /\ current_word' = pick
                   /\ current_progress' = new_progress(pick)
                   /\ current_definition' = r.dicts[selected_type][pick]
                   /\ incorrect_guesses' = 0
                   /\ guessed_letters' = {}
                   /\ message' = ""
                   /\ nonletter' = FALSE
                   /\ IF pick = <<>>
                      THEN \* play_game: ValueError("No word selected for gameplay")
                           /\ pc' = "game_error"
                           /\ error' = "ValueError"
                           /\ log' = "Game error"
                           /\ UNCHANGED << outcome, figure >>
                      ELSE /\ pc' = loop_top(0, new_progress(pick))
                           /\ outcome' = standing(pc')
                           /\ log' = logged(pc', "Selected word")
                           /\ figure' = redraw(pc', 0)
                           /\ UNCHANGED error
    /\ UNCHANGED << dictionary_path, current_option, won >>
    /\ UNCHANGED << confirm, status, file_lines >>

\* the words random.choice can return for some category
Words ==
    UNION {DOMAIN read_lines(EmptyDict, DataFiles[d][t].lines,
                             Len(DataFiles[d][t].lines)) :
             d \in Directories, t \in Tags}


\* play_game: a key other than ESC at "Enter a letter" and the rest of the
\* loop body: up to napms(1500) if a text was put on row 23, else to the end
\* of the iteration
PlayKey(key) ==
    /\ pc = "play"
    /\ key # ESC
    /\ \E h \in {handle_key(key, current_word, current_progress,
                            guessed_letters, incorrect_guesses)} :
           /\ current_progress' = h.progress
           /\ guessed_letters' = h.guessed
           /\ incorrect_guesses' = h.incorrect
           /\ message' = h.message
           /\ pc' = IF h.message # "" THEN "nap" ELSE "continue"
    /\ nonletter' = ~isalpha(key)
    /\ UNCHANGED << dictionary_path, current_option, dictionaries, current_word,
                    current_definition, won, outcome, opened, error >>
    /\ UNCHANGED << confirm, status, log, file_lines, figure >>

\* play_game: an iteration ended without napms(); the while test, the redraw
\* and the win test lead to the next getch()
Continue ==
    /\ pc = "continue"
    /\ pc' = loop_top(incorrect_guesses, current_progress)
    /\ outcome' = standing(pc')
    /\ nonletter' = FALSE
    /\ UNCHANGED << dictionary_path, current_option, dictionaries, current_word,
                    current_progress, current_definition, incorrect_guesses,
                    guessed_letters, message, won, opened, error >>
    /\ confirm' = 0
    /\ log' = logged(pc', log)
    /\ UNCHANGED << status, file_lines >>
    /\ figure' = redraw(pc', incorrect_guesses)

\* play_game: napms(1500) is over, the screen is cleared and redrawn, and the
\* loop blocks in its next getch()
NapEnd ==
    /\ pc = "nap"
    /\ pc' = loop_top(incorrect_guesses, current_progress)
    /\ outcome' = standing(pc')
    /\ message' = ""
    /\ nonletter' = FALSE
    /\ UNCHANGED << dictionary_path, current_option, dictionaries, current_word,
                    current_progress, current_definition, incorrect_guesses,
                    guessed_letters, won, opened, error >>
    /\ log' = logged(pc', log)
    /\ UNCHANGED << confirm, status, file_lines >>
    /\ figure' = redraw(pc', incorrect_guesses)

\* play_game: ESC asks "Are you sure you want to quit? (y/n)"
PlayEscape(key) ==
    /\ pc = "play"
    /\ key = ESC
    /\ pc' = "confirm"
    /\ nonletter' = TRUE
    /\ UNCHANGED << dictionary_path, current_option, dictionaries, current_word, current_progress,
                    current_definition, incorrect_guesses, guessed_letters,
                    message, won, outcome, opened, error >>
    /\ UNCHANGED << confirm, status, log, file_lines, figure >>

\* play_game: y or Y at the quit question returns False
ConfirmQuit(key) ==
    /\ pc = "confirm"
    /\ key \in {ord("y"), ord("Y")}
    /\ pc' = "again"
    /\ won' = "False"
    /\ outcome' = "Abandoned"
    /\ RoundLocalsGone
    /\ UNCHANGED << dictionary_path, current_option, dictionaries, current_word, current_progress,
                    current_definition, opened, error >>
    /\ UNCHANGED << status, log, file_lines >>

\* ConfirmContinue without the `continue`, the answer going on into the guess
\* logic as the key of the iteration
ConfirmContinueGuesses(key) ==
    /\ pc = "confirm"
    /\ key \notin {ord("y"), ord("Y")}
    /\ \E h \in {handle_key(key, current_word, current_progress,
                            guessed_letters, incorrect_guesses)} :
           /\ current_progress' = h.progress
           /\ guessed_letters' = h.guessed
           /\ incorrect_guesses' = h.incorrect
           /\ message' = h.message
           /\ pc' = IF h.message # "" THEN "nap" ELSE "continue"
    /\ confirm' = key
    /\ UNCHANGED << dictionary_path, current_option, dictionaries, current_word,
                    current_definition, nonletter, won, outcome, opened, error,
                    status, log, file_lines, figure >>

\* play_game: any other key at the quit question: `continue`
ConfirmContinue(key) ==
    /\ pc = "confirm"
    /\ key \notin {ord("y"), ord("Y")}
    /\ pc' = "continue"
    /\ UNCHANGED << dictionary_path, current_option, dictionaries, current_word, current_progress,
                    current_definition, incorrect_guesses, guessed_letters,
                    message, nonletter, won, outcome, opened, error >>
    /\ confirm' = key
    /\ UNCHANGED << status, log, file_lines, figure >>

\* play_game: a key after "Congratulations! You won!" returns True
WonAck(key) ==
    /\ pc = "won_ack"
    /\ pc' = "again"
    /\ won' = "True"
    /\ RoundLocalsGone
    /\ UNCHANGED << dictionary_path, current_option, dictionaries, current_word, current_progress,
                    current_definition, outcome, opened, error >>
    /\ UNCHANGED << status, log, file_lines >>

\* LostAck with `return True` as the last line of play_game
LostAckReturnsTrue(key) ==
    /\ pc = "lost_ack"
    /\ pc' = "again"
    /\ won' = "True"
    /\ RoundLocalsGone
    /\ UNCHANGED << dictionary_path, current_option, dictionaries, current_word, current_progress,
                    current_definition, outcome, opened, error >>
    /\ UNCHANGED << status, log, file_lines >>

\* play_game: a key after "Game Over!" returns False
LostAck(key) ==
    /\ pc = "lost_ack"
    /\ pc' = "again"
    /\ won' = "False"
    /\ RoundLocalsGone
    /\ UNCHANGED << dictionary_path, current_option, dictionaries, current_word, current_progress,
                    current_definition, outcome, opened, error >>
    /\ UNCHANGED << status, log, file_lines >>

\* main: n, N, q or Q at "Play again? (y/n)" returns from main
AgainNo(key) ==
    /\ pc = "again"
    /\ key \in {ord("n"), ord("N"), ord("q"), ord("Q")}
    /\ UNCHANGED << dictionary_path, current_option, dictionaries, current_word, current_progress,
                    current_definition, incorrect_guesses, guessed_letters,
                    message, nonletter, won, outcome, opened, error >>
    /\ ProcessEnds
    /\ UNCHANGED << confirm, file_lines >>

\* main: y, Y or Enter at "Play again? (y/n)" starts get_random_word again;
\* `won` is not read again before play_game returns anew
AgainYes(key) ==
    /\ pc = "again"
    /\ key \in {ord("y"), ord("Y"), 10, 13}
    /\ pc' = "menu"
    /\ current_option' = 0
    /\ won' = "unset"
    /\ outcome' = "None"
    /\ UNCHANGED << dictionary_path, dictionaries, current_word, current_progress,
                    current_definition, incorrect_guesses, guessed_letters,
                    message, nonletter, opened, error >>
    /\ UNCHANGED << confirm, status, log, file_lines, figure >>

\* AgainOther with an `else: break` in the inner loop: any other key starts
\* get_random_word again
AgainOtherBreaks(key) ==
    /\ pc = "again"
    /\ key \notin {ord("n"), ord("N"), ord("q"), ord("Q"), ord("y"), ord("Y"), 10, 13}
    /\ pc' = "menu"
    /\ current_option' = 0
    /\ won' = "unset"
    /\ outcome' = "None"
    /\ UNCHANGED << dictionary_path, dictionaries, current_word, current_progress,
                    current_definition, incorrect_guesses, guessed_letters,
                    message, nonletter, opened, error, confirm, status, log, file_lines, figure >>

\* main: any other key at "Play again? (y/n)" is read and dropped
AgainOther(key) ==
    /\ pc = "again"
    /\ key \notin {ord("n"), ord("N"), ord("q"), ord("Q"), ord("y"), ord("Y"), 10, 13}
    /\ UNCHANGED vars

\* SelectErrorAck without the `raise` that ends get_random_word's handler:
\* get_random_word returns and main calls play_game on the word left over
SelectErrorAckNoRaise(key) ==
    /\ pc = "select_error"
    /\ IF current_word = <<>>
       THEN /\ pc' = "game_error"
            /\ error' = "ValueError"
            /\ log' = "Game error"
            /\ UNCHANGED << outcome, figure >>
       ELSE /\ pc' = loop_top(0, current_progress)
            /\ error' = "none"
            /\ outcome' = standing(pc')
            /\ log' = logged(pc', log)
            /\ figure' = redraw(pc', 0)
    /\ UNCHANGED << dictionary_path, current_option, dictionaries, current_word, current_progress,
                    current_definition, incorrect_guesses, guessed_letters,
                    message, nonletter, won, opened >>
    /\ UNCHANGED << confirm, status, file_lines >>

\* get_random_word: a key at its "Press any key to continue..." re-raises;
\* main's except Exception shows "An error occurred" and waits again
SelectErrorAck(key) ==
    /\ pc = "select_error"
    /\ pc' = "game_error"
    /\ UNCHANGED << dictionary_path, current_option, dictionaries, current_word, current_progress,
                    current_definition, incorrect_guesses, guessed_letters,
                    message, nonletter, won, outcome, opened, error >>
    /\ log' = "Game error"
    /\ UNCHANGED << confirm, status, file_lines, figure >>

\* main: a key at its "Press any key to continue..." goes round the loop
GameErrorAck(key) ==
    /\ pc = "game_error"
    /\ pc' = "menu"
    /\ current_option' = 0
    /\ error' = "none"
    /\ UNCHANGED << dictionary_path, dictionaries, current_word, current_progress,
                    current_definition, incorrect_guesses, guessed_letters,
                    message, nonletter, won, outcome, opened >>
    /\ UNCHANGED << confirm, status, log, file_lines, figure >>

\* KeyboardInterrupt while play_game waits inside its try: return False
InterruptRound ==
    /\ pc \in {"play", "confirm", "nap"}
    /\ pc' = "again"
    /\ won' = "False"
    /\ outcome' = "Interrupted"
    /\ RoundLocalsGone
    /\ UNCHANGED << dictionary_path, current_option, dictionaries, current_word, current_progress,
                    current_definition, opened, error >>
    /\ UNCHANGED << status, log, file_lines >>

\* KeyboardInterrupt at any other getch(): main is left, the process ends
InterruptExit ==
    /\ pc \in {"menu", "won_ack", "lost_ack", "again", "select_error", "game_error"}
    /\ UNCHANGED << dictionary_path, current_option, dictionaries, current_word, current_progress,
                    current_definition, incorrect_guesses, guessed_letters,
                    message, nonletter, won, outcome, opened, error >>
    /\ ProcessEnds
    /\ UNCHANGED << confirm, file_lines >>

\* the keys the player presses
Keys == GuessKeys \cup AnswerKeys \cup OtherKeys \cup {ESC}

\* the keys pressed at "Enter a letter": the answer letters are guesses there
\* only as far as NumLetterKeys admits them
RoundKeys == GuessKeys \cup OtherKeys \cup {ESC}

\* the keys pressed at the quit question: the answers, ESC again, Enter, a
\* digit, a code above 126, and one more letter in both cases
ConfirmKeys ==
    AnswerKeys \cup {ESC, 10, ord("2"), 200} \cup {Keyboard[1], upper(Keyboard[1])}

Next ==
    \/ Start
    \/ \E key \in Keys : MenuMove(key)
    \/ \E key \in Keys : MenuOther(key)
    \/ \E key \in Keys : MenuEscape(key)
    \/ \E key \in Keys, pick \in Words : MenuSelect(key, pick)
    \/ \E key \in RoundKeys : PlayKey(key)
    \/ \E key \in RoundKeys : PlayEscape(key)
    \/ NapEnd
    \/ Continue
    \/ \E key \in ConfirmKeys : ConfirmQuit(key)
    \/ \E key \in ConfirmKeys : ConfirmContinue(key)
    \/ \E key \in Keys : WonAck(key)
    \/ \E key \in Keys : LostAck(key)
    \/ \E key \in Keys : AgainNo(key)
    \/ \E key \in Keys : AgainYes(key)
    \/ \E key \in Keys : AgainOther(key)
    \/ \E key \in Keys : SelectErrorAck(key)
    \/ \E key \in Keys : GameErrorAck(key)
    \/ InterruptRound
    \/ InterruptExit

Spec == Init /\ [][Next]_vars

TypeOK ==
    /\ pc \in {"start", "menu", "play", "nap", "continue", "confirm", "won_ack",
               "lost_ack", "again", "select_error", "game_error", "exited",
               "reading", "loaded"}
    /\ current_option \in 0..(Len(WORD_TYPES) - 1)
    /\ dictionary_path \in StartPaths
    /\ status \in {"running", "0", "1"}
    /\ DOMAIN dictionaries \subseteq Tags
    /\ incorrect_guesses \in 0..max_incorrect
    /\ won \in {"unset", "True", "False"}

----------------------------------------------------------------------------
(* A second specification: get_random_word's choice of word is replaced by   *)
(* an arbitrary word over letters, hyphens and spaces.                       *)

\* the longest word drawn
NewRoundMaxLen == 3

NewRoundChars == {ord("a"), ord("Z"), ord("-"), ord(" ")}

NewRoundWords ==
    UNION {[1..n -> NewRoundChars] : n \in 1..NewRoundMaxLen}

NewRoundInit ==
    /\ dictionary_path = "wordnet"
    /\ pc = "menu"
    /\ current_option = 0
    /\ dictionaries = [t \in {} |-> EmptyDict]
    /\ current_word \in NewRoundWords
    /\ current_progress = <<>>
    /\ current_definition = <<>>
    /\ incorrect_guesses = 0
    /\ guessed_letters = {}
    /\ message = ""
    /\ nonletter = FALSE
    /\ won = "unset"
    /\ outcome = "None"
    /\ opened = [t \in Tags |-> 0]
    /\ error = "none"
    /\ confirm = 0
    /\ status = "running"
    /\ log = "Starting Hangman game"
    /\ file_lines = <<>>
    /\ figure = <<>>

\* get_random_word from the line after random.choice, then play_game up to
\* its first getch()
NewRound ==
    /\ pc = "menu"
    /\ current_progress' = new_progress(current_word)
    /\ pc' = loop_top(0, current_progress')
    /\ outcome' = standing(pc')
    /\ UNCHANGED << dictionary_path, current_option, dictionaries, current_word,
                    current_definition, incorrect_guesses, guessed_letters,
                    message, nonletter, won, opened, error >>
    /\ log' = logged(pc', "Selected word")
    /\ UNCHANGED << confirm, status, file_lines >>
    /\ figure' = redraw(pc', 0)

NewRoundNext == NewRound

NewRoundSpec == NewRoundInit /\ [][NewRoundNext]_vars

----------------------------------------------------------------------------
(* A third specification: read_dictionary's for loop, one line per step, on *)
(* files of one or two lines put together from parts.                      *)

\* the most fields put between the first field and the headword
ParseMaxFields == 4

ParseLeads == {<<>>, <<32>>, <<9>>}

ParseFirsts == {Str(<< "1" >>), Str(<< "x" >>), Str(<< ";" >>)}

ParseWords == {Str(<< "d", "o", "g" >>), Str(<< "e", "e", "l" >>)}

ParseBars == {<<>>, Str(<< "|" >>), Str(<< " ", "|", " " >>)}

ParseGlosses ==
    {<<>>, Str(<< "c", "u", "r" >>), Str(<< " ", ";", " ", "f" >>),
     Str(<< " ", "p", " ", ";", "q" >>), Str(<< "w", "|", "z" >>)}

ParseTails == {<<>>, <<10>>}

\* k fields " 5"
RECURSIVE ParseFields(_)
ParseFields(k) == IF k = 0 THEN <<>> ELSE Str(<< " ", "5" >>) \o ParseFields(k - 1)

ParseLines ==
    {lead \o first \o ParseFields(k) \o <<32>> \o word \o bar \o gloss \o tail :
        lead \in ParseLeads, first \in ParseFirsts, k \in 2..ParseMaxFields,
        word \in ParseWords, bar \in ParseBars, gloss \in ParseGlosses,
        tail \in ParseTails}

\* a file is one line, or that line after the line of data.noun that
\* defines "dog"
ParseFiles == {<< l >> : l \in ParseLines} \cup {<< NounLines[2], l >> : l \in ParseLines}

\* read_dictionary("noun") has opened the file and is about to read its lines
ParseInit ==
    /\ dictionary_path = "wordnet"
    /\ pc = "reading"
    /\ current_option = 0
    /\ dictionaries = [t \in {"noun"} |-> EmptyDict]
    /\ current_word = <<>>
    /\ current_progress = <<>>
    /\ current_definition = <<>>
    /\ incorrect_guesses = 0
    /\ guessed_letters = {}
    /\ message = ""
    /\ nonletter = FALSE
    /\ won = "unset"
    /\ outcome = "None"
    /\ opened = [t \in Tags |-> IF t = "noun" THEN 1 ELSE 0]
    /\ error = "none"
    /\ confirm = 0
    /\ status = "running"
    /\ log = "Starting Hangman game"
    /\ file_lines \in ParseFiles
    /\ figure = <<>>

\* one iteration of `for line in file`
ReadLine ==
    /\ pc = "reading"
    /\ file_lines # <<>>
    /\ LET word_type == WORD_TYPES[current_option + 1]
           e == parse_line(Head(file_lines))
       IN  dictionaries' =
              IF e.stored
              THEN [dictionaries EXCEPT
                      ![word_type] = store(@, e.word, e.definition)]
              ELSE dictionaries
    /\ file_lines' = Tail(file_lines)
    /\ UNCHANGED << dictionary_path, pc, current_option, current_word,
                    current_progress, current_definition, incorrect_guesses,
                    guessed_letters, message, nonletter, won, outcome, opened,
                    error, confirm, status, log, figure >>

\* the file is exhausted: the with block closes it, read_dictionary returns
ReadEnd ==
    /\ pc = "reading"
    /\ file_lines = <<>>
    /\ pc' = "loaded"
    /\ UNCHANGED << dictionary_path, current_option, dictionaries, current_word,
                    current_progress, current_definition, incorrect_guesses,
                    guessed_letters, message, nonletter, won, outcome, opened,
                    error, confirm, status, log, file_lines, figure >>

ParseNext == ReadLine \/ ReadEnd

ParseSpec == ParseInit /\ [][ParseNext]_vars

----------------------------------------------------------------------------
(* Vocabulary of the properties *)

\* the code points of the letters a-z and A-Z
LetterCodes == (65..90) \cup (97..122)

\* the process is inside play_game
InPlayGame == pc \in {"play", "nap", "continue", "confirm", "won_ack", "lost_ack"}

\* letter L occurs in word W, ignoring case
Occurs(L, W) == \E i \in 1..Len(W) : lower(W[i]) = lower(L)

\* no position of the progress holds the placeholder
NoPlaceholder == \A i \in 1..Len(current_progress) : current_progress[i] # ord("_")

\* every letter of the word has been guessed
AllLettersGuessed ==
    \A i \in 1..Len(current_word) :
        current_word[i] \in LetterCodes => lower(current_word[i]) \in guessed_letters

dog == Str(<< "d", "o", "g" >>)

\* the keys of a round that are letters, and those that are not
LetterKeys == RoundKeys \cap LetterCodes
NonLetterKeys == RoundKeys \ LetterCodes

----------------------------------------------------------------------------
(* A fourth specification: a player who takes the first category of the    *)
(* menu and then presses nothing but letter keys whose lowercase form is    *)
(* not in guessed_letters, and who presses a key whenever one is awaited.   *)

\* the player presses a letter key not yet in guessed_letters
GuesserKey(key) ==
    /\ key \in LetterKeys
    /\ lower(key) \notin guessed_letters
    /\ PlayKey(key)

GuesserNext ==
    \/ Start
    \/ \E pick \in Words : MenuSelect(10, pick)
    \/ \E key \in LetterKeys : GuesserKey(key)
    \/ NapEnd
    \/ Continue

\* a step of the round: the player's key, the end of napms, the next iteration
GuesserRound ==
    \/ \E key \in LetterKeys : GuesserKey(key)
    \/ NapEnd
    \/ Continue

GuesserSpec == Init /\ [][GuesserNext]_vars /\ WF_vars(GuesserRound)

----------------------------------------------------------------------------
(* Properties *)

\* C1: at "Enter a letter", every letter key a-z, A-Z whose lowercase form is
\* not in guessed_letters adds exactly one element to guessed_letters, and
\* adds one to incorrect_guesses iff the letter does not occur in the word.
C1_NewLetterCounts ==
    [][\A key \in LetterKeys :
          (pc = "play" /\ lower(key) \notin guessed_letters /\ PlayKey(key))
          => /\ Cardinality(guessed_letters') = Cardinality(guessed_letters) + 1
             /\ incorrect_guesses' =
                   incorrect_guesses + (IF Occurs(key, current_word) THEN 0 ELSE 1)]_vars

\* C2: during a round, position i of current_progress differs from '_' iff
\* current_word[i] is not a letter or its lowercase form has been guessed.
C2_RevealedIffGuessedOrNonLetter ==
    InPlayGame =>
        \A i \in 1..Len(current_word) :
            (current_progress[i] # ord("_"))
              <=> (current_word[i] \notin LetterCodes
                     \/ lower(current_word[i]) \in guessed_letters)

\* C3: during a round, is_word_complete() holds iff every letter of the word
\* is in guessed_letters, and play_game shows the win exactly then.
C3_CompleteIffAllGuessed ==
    InPlayGame =>
        /\ is_word_complete(current_progress) <=> AllLettersGuessed
        /\ (pc \in {"play", "confirm", "won_ack", "lost_ack"})
              => ((pc = "won_ack") <=> AllLettersGuessed)

\* C4: a letter key whose lowercase form is already in guessed_letters is
\* answered "You already guessed" and changes neither current_progress nor
\* incorrect_guesses nor guessed_letters.
C4_RepeatedGuessChangesNothing ==
    [][(pc = "play") =>
          \A key \in LetterKeys :
             (lower(key) \in guessed_letters /\ PlayKey(key))
             => /\ message' = "already"
                /\ UNCHANGED << current_progress, incorrect_guesses,
                                guessed_letters >>]_vars

C4_Witness ==
    /\ pc = "nap"
    /\ message = "already"
    /\ incorrect_guesses > 0
    /\ \E i \in 1..Len(current_word) : current_progress[i] \in LetterCodes


\* C5: incorrect_guesses stays within 0..9; play_game is at "Game Over!"
\* exactly when it has left the loop with incorrect_guesses = 9, the word
\* then being incomplete after nine guessed letters that are not in it; no
\* key is taken as a guess once incorrect_guesses = 9; and in a round on
\* "dog" incorrect_guesses counts the guessed letters other than d, o, g.
C5_LostAtNine ==
    /\ [](/\ incorrect_guesses \in 0..9
          /\ (pc \in {"play", "continue", "confirm", "won_ack"}
                => incorrect_guesses < 9)
          /\ (pc = "lost_ack" =>
                /\ incorrect_guesses = 9
                /\ outcome = "Lost"
                /\ ~NoPlaceholder
                /\ Cardinality({l \in guessed_letters : ~Occurs(l, current_word)}) = 9)
          /\ ((InPlayGame /\ current_word = dog) =>
                incorrect_guesses = Cardinality(guessed_letters \ {dog[i] : i \in 1..3})))
    /\ [][incorrect_guesses = 9 =>
            (UNCHANGED << guessed_letters, incorrect_guesses, current_progress >>
               \/ pc' = "again")]_vars

C5_Witness ==
    /\ pc = "lost_ack"
    /\ current_word = dog
    /\ incorrect_guesses = 9
    /\ Cardinality(guessed_letters) = 9
    /\ current_progress = << ord("_"), ord("_"), ord("_") >>

\* C6: a round that is won, lost or abandoned stays so: from then on no step
\* touches its word or progress and the next thing is the play-again
\* question; no round is at once complete and at nine incorrect guesses; and
\* play_game returns True only from the win screen.
C6_OutcomesTerminalAndExclusive ==
    /\ [](/\ (InPlayGame => ~(NoPlaceholder /\ incorrect_guesses = 9))
          /\ (pc = "won_ack" => NoPlaceholder /\ outcome = "Won")
          /\ (pc = "lost_ack" => ~NoPlaceholder /\ outcome = "Lost")
          /\ (won = "True" => outcome = "Won" /\ NoPlaceholder)
          /\ ((pc = "again" /\ outcome \in {"Lost", "Abandoned"}) => won = "False"))
    /\ [][(pc \in {"won_ack", "lost_ack", "again"}) =>
            (/\ pc' \in {"again", "menu", "exited"}
             /\ UNCHANGED << current_word, current_progress, current_definition >>
             /\ (outcome' = outcome \/ pc' = "menu"))]_vars

C6_Witness ==
    /\ pc = "again"
    /\ won = "True"
    /\ outcome = "Won"
    /\ current_word = dog

\* C7: for a word of letters, hyphens and spaces, the progress it starts with
\* has the word's length, '_' at every letter and the word's own character
\* at every hyphen and space.
C7_InitialProgress ==
    (pc # "menu" /\ \A i \in 1..Len(current_word) :
                      current_word[i] \in LetterCodes \cup {ord("-"), ord(" ")})
    => /\ Len(current_progress) = Len(current_word)
       /\ \A i \in 1..Len(current_word) :
             current_progress[i] =
                IF current_word[i] \in LetterCodes THEN ord("_") ELSE current_word[i]

C7_Witness ==
    /\ pc = "play"
    /\ current_word = << ord("Z"), ord("-"), ord(" ") >>
    /\ current_progress = << ord("_"), ord("-"), ord(" ") >>

\* C8: a key at "Enter a letter" that is not a letter changes none of
\* current_word, current_progress, guessed_letters, incorrect_guesses, and the
\* round is still in progress afterwards.
C8_NonLetterKeyChangesNothing ==
    [][(pc = "play") =>
          \A key \in NonLetterKeys :
             (PlayKey(key) \/ PlayEscape(key))
             => /\ UNCHANGED << current_word, current_progress, guessed_letters,
                                incorrect_guesses >>
                /\ pc' \in {"continue", "confirm"}
                /\ outcome' = "InProgress"]_vars

C8_Witness ==
    /\ pc = "continue"
    /\ nonletter
    /\ incorrect_guesses > 0
    /\ \E i \in 1..Len(current_word) : current_progress[i] \in LetterCodes

\* C9: selecting a category whose data file is missing shows a
\* FileNotFoundError, selecting one that holds no word shows a ValueError;
\* neither enters play_game nor touches the game state; a key at the first
\* prompt leads to the second, a key at the second to the category menu; the
\* process ends from these prompts on an interrupt only.
C9_SelectionErrorReturnsToMenu ==
    [][(/\ (pc = "menu" /\ pc' \notin {"menu", "exited"}) =>
              LET t == WORD_TYPES[current_option + 1]
              IN  /\ (~DataFiles[dictionary_path][t].exists) =>
                         (pc' = "select_error" /\ error' = "FileNotFoundError")
                  /\ (t \in DOMAIN dictionaries' /\ DOMAIN dictionaries'[t] = {}) =>
                         (pc' = "select_error" /\ error' = "ValueError")
        /\ (pc \in {"select_error", "game_error"} \/ pc' = "select_error") =>
              UNCHANGED << current_word, current_progress, current_definition,
                           guessed_letters, incorrect_guesses, outcome, won >>
        /\ (pc = "select_error") => (pc' = "game_error" \/ InterruptExit)
        /\ (pc = "game_error") =>
              ((pc' = "menu" /\ current_option' = 0) \/ InterruptExit))]_vars

C9_Witness ==
    /\ pc = "game_error"
    /\ error = "FileNotFoundError"
    /\ "verb" \in DOMAIN dictionaries
    /\ dictionaries["verb"] = EmptyDict

\* C10: a tag enters self.dictionaries only in the step that selects it, its
\* file is opened at most once, and a tag that is in self.dictionaries keeps
\* its mapping unchanged in every later step.
C10_CacheLoadedOnceThenFrozen ==
    /\ [](\A t \in Tags :
            /\ opened[t] <= 1
            /\ t \in DOMAIN dictionaries => opened[t] = 1)
    /\ [][\A t \in Tags :
           (/\ t \in DOMAIN dictionaries =>
                  /\ t \in DOMAIN dictionaries'
                  /\ dictionaries'[t] = dictionaries[t]
                  /\ opened'[t] = opened[t]
            /\ (t \notin DOMAIN dictionaries
                  /\ (t \in DOMAIN dictionaries' \/ opened'[t] # opened[t])) =>
                  (pc = "menu" /\ t = WORD_TYPES[current_option + 1]))]_vars

C10_Witness ==
    /\ {"verb", "adj"} \subseteq DOMAIN dictionaries
    /\ pc = "again"
    /\ won = "True"

\* C11: ESC at "Enter a letter" opens the quit question and changes nothing
\* else; the round becomes Abandoned only by y or Y at that question; every
\* other key there leaves current_word, current_progress, guessed_letters and
\* incorrect_guesses as they are, shows no guess text, and the loop goes on to
\* its next "Enter a letter" with the round in progress.
C11_EscNeedsConfirmation ==
    [][(/\ (pc = "play" /\ PlayEscape(ESC)) =>
              /\ pc' = "confirm"
              /\ outcome' = "InProgress"
              /\ UNCHANGED << current_word, current_progress, guessed_letters,
                              incorrect_guesses >>
        /\ (outcome' = "Abandoned" /\ outcome # "Abandoned") =>
              /\ pc = "confirm"
              /\ \E key \in {ord("y"), ord("Y")} : ConfirmQuit(key)
        /\ (pc = "confirm") =>
              \A key \in ConfirmKeys :
                 /\ (key \in {ord("y"), ord("Y")} /\ ConfirmQuit(key)) =>
                       (pc' = "again" /\ outcome' = "Abandoned" /\ won' = "False")
                 /\ (key \notin {ord("y"), ord("Y")} /\ ConfirmContinue(key)) =>
                       /\ pc' = "continue"
                       /\ outcome' = "InProgress"
                       /\ message' = ""
                       /\ UNCHANGED << current_word, current_progress,
                                       guessed_letters, incorrect_guesses >>
        /\ (pc = "confirm") => pc' \in {"continue", "again"}
        /\ (pc = "continue" /\ confirm # 0) =>
              /\ pc' = "play"
              /\ outcome' = "InProgress"
              /\ UNCHANGED << current_word, current_progress, guessed_letters,
                              incorrect_guesses >>)]_vars

C11_Witness ==
    /\ pc = "continue"
    /\ confirm \in LetterCodes
    /\ Occurs(confirm, current_word)
    /\ lower(confirm) \notin guessed_letters
    /\ guessed_letters # {}

\* C12: whenever the process has ended, it has an exit status, 1 exactly when
\* the path given with -d is missing or no directory and 0 otherwise, and
\* the entry written last to the log file is the final "Hangman game ended".
C12_ExitStatusAndFinalLog ==
    (pc = "exited") =>
        /\ status = (IF dictionary_path \in Directories THEN "0" ELSE "1")
        /\ log = "Hangman game ended"

\* the keys main accepts at "Play again? (y/n)"
PlayAgainKeys ==
    {ord("n"), ord("N"), ord("q"), ord("Q"), ord("y"), ord("Y"), 10, 13}

\* C13: when play_game returns (a key at the win or loss screen, y/Y at the
\* quit question) the process is at the play-again question, and only then;
\* there n/N end the process, y/Y lead to the category menu, every key that
\* is not accepted changes nothing; the question is left only by an accepted
\* key (or a KeyboardInterrupt), and a round starts only from the menu.
C13_PlayAgainAfterEveryRound ==
    [][(/\ (pc \in {"won_ack", "lost_ack", "confirm"}) =>
              \A key \in Keys :
                 (WonAck(key) \/ LostAck(key) \/ ConfirmQuit(key)) => pc' = "again"
        /\ (pc # "again" /\ pc' = "again") => InPlayGame
        /\ (pc = "again") =>
              \A key \in Keys :
                 /\ (key \in {ord("n"), ord("N")} /\ AgainNo(key)) =>
                       (pc' = "exited" /\ status' = "0")
                 /\ (key \in {ord("y"), ord("Y")} /\ AgainYes(key)) =>
                       (pc' = "menu" /\ current_option' = 0)
                 /\ (key \notin PlayAgainKeys /\ AgainOther(key)) => UNCHANGED vars
        /\ (pc = "again" /\ pc' # "again") =>
              \/ \E key \in PlayAgainKeys : AgainNo(key) \/ AgainYes(key)
              \/ InterruptExit
        /\ (~InPlayGame /\ InPlayGame') => pc = "menu")]_vars

C13_Witness ==
    /\ pc = "menu"
    /\ log = "Player lost"
    /\ current_word = dog
    /\ won = "unset"

\* the entry the rule "first character a digit, a '|', at least 5 tokens
\* left of the first '|', a non-empty trimmed first ';'-segment right of it"
\* yields on a text: token index 4 and that segment
RuleEntry(text) ==
    LET parts == split1(text, ord("|"))
        tokens == split(parts[1])
        segment == strip(firstpart(parts[2], ord(";")))
    IN  IF /\ text # <<>>
           /\ isdigit(text[1])
           /\ find(text, ord("|")) # 0
           /\ Len(tokens) >= 5
           /\ segment # <<>>
        THEN [stored |-> TRUE, word |-> tokens[5], definition |-> segment]
        ELSE [stored |-> FALSE]

\* reading a line has the effect of entry e on the mapping of the tag: e is
\* stored, replacing any earlier definition of its word, or nothing changes
RuleEffect(e) ==
    dictionaries' =
       IF e.stored
       THEN [dictionaries EXCEPT !["noun"] =
               [w \in (DOMAIN @) \cup {e.word} |->
                   IF w = e.word THEN e.definition ELSE @[w]]]
       ELSE dictionaries

\* C14 as stated: each line read has the effect of the rule applied to the
\* line as it stands in the file.
C14_StoresIffRule ==
    [][ReadLine => RuleEffect(RuleEntry(Head(file_lines)))]_vars

\* C14 amended: each line read has the effect of the rule applied to the line
\* without its leading whitespace.
C14_StoresIffRuleAfterStrip ==
    [][ReadLine => RuleEffect(RuleEntry(lstrip(Head(file_lines))))]_vars

C14_Witness ==
    /\ pc = "reading"
    /\ Len(file_lines) = 1
    /\ isspace(Head(file_lines)[1])
    /\ RuleEntry(lstrip(Head(file_lines))).stored
    /\ RuleEntry(lstrip(Head(file_lines))).word \in DOMAIN dictionaries["noun"]

\* C15: play_game is entered only by the step that selected a word in the
\* menu, and at its first getch() guessed_letters is empty, incorrect_guesses
\* is 0, current_word is a word of the selected category, current_definition
\* is its definition there, and current_progress has the word's length with
\* '_' at every letter and the word's own character elsewhere.
C15_RoundStartsFresh ==
    [][(~InPlayGame /\ InPlayGame') =>
          LET t == WORD_TYPES[current_option + 1]
          IN  /\ pc = "menu"
              /\ guessed_letters' = {}
              /\ incorrect_guesses' = 0
              /\ t \in DOMAIN dictionaries'
              /\ current_word' \in DOMAIN dictionaries'[t]
              /\ current_definition' = dictionaries'[t][current_word']
              /\ Len(current_progress') = Len(current_word')
              /\ \A i \in 1..Len(current_word') :
                    current_progress'[i] =
                       IF current_word'[i] \in LetterCodes
                       THEN ord("_") ELSE current_word'[i]]_vars

C15_Witness ==
    /\ pc = "menu"
    /\ log = "Game error"
    /\ current_word = dog
    /\ \E i \in 1..Len(current_word) : current_progress[i] \in LetterCodes

\* the nine stages in the order of the claim
FigureOrder ==
    << "head", "neck", "torso", "right_arm", "left_arm", "right_leg",
       "left_leg", "right_shoe", "left_shoe" >>

\* C16: at every getch() of the loop that follows a redraw the screen shows
\* the gallows and the first incorrect_guesses stages of the order head,
\* neck, torso, right arm, left arm, right leg, left leg, right shoe, left
\* shoe; between redraws it shows that or one stage less; all nine stages are
\* on screen at the loss screen only; an incorrect guess adds one to
\* incorrect_guesses and every other key leaves it as it is; each redraw
\* keeps the figure or adds exactly the next stage.
C16_FigureMatchesIncorrectGuesses ==
    /\ [](/\ (pc \in {"play", "confirm", "won_ack"}) =>
                figure = << "gallows" >> \o SubSeq(FigureOrder, 1, incorrect_guesses)
          /\ (pc \in {"nap", "continue"}) =>
                \E n \in {incorrect_guesses, incorrect_guesses - 1} :
                    /\ n >= 0
                    /\ (n # incorrect_guesses => message = "sorry")
                    /\ figure = << "gallows" >> \o SubSeq(FigureOrder, 1, n)
          /\ (pc = "lost_ack") => figure = << "gallows" >> \o FigureOrder
          /\ (Len(figure) = 1 + Len(FigureOrder)) => pc = "lost_ack"
          /\ (~InPlayGame) => figure = <<>>)
    /\ [][(pc = "play" /\ InPlayGame') =>
            /\ (message' = "sorry") => incorrect_guesses' = incorrect_guesses + 1
            /\ (message' # "sorry") => incorrect_guesses' = incorrect_guesses
            /\ UNCHANGED figure]_vars
    /\ [][(pc \in {"nap", "continue"} /\ InPlayGame') =>
            \/ figure' = figure
            \/ figure' = Append(figure, FigureOrder[Len(figure)])]_vars

C16_Witness ==
    /\ pc = "play"
    /\ incorrect_guesses = 8
    /\ figure = << "gallows", "head", "neck", "torso", "right_arm", "left_arm",
                   "right_leg", "left_leg", "right_shoe" >>
    /\ \E i \in 1..Len(current_word) : current_progress[i] \in LetterCodes

\* the round state after the keys of the sequence ks are pressed in turn at
\* "Enter a letter", starting from progress p, guessed letters g and n
\* incorrect guesses
RECURSIVE PressKeys(_, _, _, _, _)
PressKeys(ks, word, p, g, n) ==
    IF ks = <<>>
    THEN [progress |-> p, guessed |-> g, incorrect |-> n]
    ELSE LET h == handle_key(Head(ks), word, p, g, n)
         IN  PressKeys(Tail(ks), word, h.progress, h.guessed, h.incorrect)

\* C17: at the first getch() of every round a win is within reach: pressing
\* the characters of the word as keys one after the other (no other key
\* changes a position of the progress) leaves no '_' in current_progress.
C17_EveryRoundWinnable ==
    (pc \in {"play", "won_ack"} /\ guessed_letters = {} /\ incorrect_guesses = 0)
    => is_word_complete(PressKeys(current_word, current_word, current_progress,
                                  guessed_letters, incorrect_guesses).progress)

\* what bears the refutation out: rounds on "A_b" and on "q-2" never show
\* the win
UnwinnableWordsNeverWon ==
    (current_word \in {Str(<< "A", "_", "b" >>), Str(<< "q", "-", "2" >>)})
    => pc # "won_ack"

\* C18: while the process is in play_game, guessed_letters holds lowercase
\* letters only, its size is incorrect_guesses plus the number of its letters
\* that occur in current_word, and incorrect_guesses is the number of its
\* letters that do not.
C18_GuessAccounting ==
    InPlayGame =>
        /\ guessed_letters \subseteq 97..122
        /\ Cardinality(guessed_letters) =
              incorrect_guesses
                + Cardinality({l \in guessed_letters : Occurs(l, current_word)})
        /\ incorrect_guesses =
              Cardinality({l \in guessed_letters : ~Occurs(l, current_word)})

C18_Witness ==
    /\ pc = "play"
    /\ incorrect_guesses = 3
    /\ Cardinality(guessed_letters) = 5
    /\ current_word = Str(<< "A", "_", "b" >>)

\* C19: across every step that stays inside play_game, a position of
\* current_progress that is not '_' keeps its character, incorrect_guesses
\* stays or grows by one, guessed_letters loses no element, and current_word
\* and current_definition do not change.
C19_RoundStateOnlyMovesForward ==
    [][(InPlayGame /\ InPlayGame') =>
          /\ Len(current_progress') = Len(current_progress)
          /\ \A i \in 1..Len(current_progress) :
                current_progress[i] # ord("_") =>
                    current_progress'[i] = current_progress[i]
          /\ incorrect_guesses' \in {incorrect_guesses, incorrect_guesses + 1}
          /\ guessed_letters \subseteq guessed_letters'
          /\ UNCHANGED << current_word, current_definition >>]_vars

C19_Witness ==
    /\ pc = "nap"
    /\ message = "good"
    /\ incorrect_guesses >= 2
    /\ Cardinality({i \in 1..Len(current_word) :
                       current_progress[i] \in LetterCodes}) >= 2

\* C20: for the player who only presses letter keys not yet in
\* guessed_letters, every round that waits at "Enter a letter" comes to the
\* win screen or the loss screen, and guessed_letters never holds more than
\* 26 letters.
C20_GuessingPlayerFinishes ==
    /\ [](Cardinality(guessed_letters) <= 26)
    /\ (pc = "play") ~> (pc \in {"won_ack", "lost_ack"})

\* the mapping a complete read of the data file of tag t yields
LoadedToTheEnd(t) ==
    read_lines(EmptyDict, DataFiles[dictionary_path][t].lines,
               Len(DataFiles[dictionary_path][t].lines))

\* C21: self.dictionaries holds a tag only with the mapping of its file read
\* to the end, and whenever a selection ends in a FileNotFoundError or an
\* IOError the selected tag is not in self.dictionaries afterwards.
C21_FailedLoadLeavesNoTrace ==
    /\ [](\A t \in DOMAIN dictionaries : dictionaries[t] = LoadedToTheEnd(t))
    /\ [][(pc = "menu" /\ pc' = "select_error"
             /\ error' \in {"FileNotFoundError", "IOError"}) =>
            WORD_TYPES[current_option + 1] \notin DOMAIN dictionaries']_vars

====
